---- MODULE Spec2Model ----
(***************************************************************************)
(* A model of polydoku-rs (src/src/main.rs): the Grid of Cells, its        *)
(* construction (Grid::new), the bulk load (bodge), the validator          *)
(* (validate), the single-step deduction engine (solve_next) and the claim *)
(* primitives (claim_a, claim_rc), driven by main's call sequence.         *)
(*                                                                         *)
(* Addresses are 0-based as in the source; cells is a TLA+ sequence, so    *)
(* the cell at address a is cells[a + 1].                                  *)
(* Return values are integers: bodge's Ok(used) is used and its Err is -1, *)
(* validate's bool is 1 (true) or 0 (false), solve_next's u8 is itself.    *)
(* pc is the caller's position, op the method called last, abort the panic *)
(* that ended the run ("none" while it runs), arrlen the length of the     *)
(* vector last handed to bodge, nclaims the caller's direct claims so far, *)
(* diag the lines the 'triple' finder printed in the last call (none for   *)
(* the other methods), calls the calls of solve_next main's loop has made. *)
(***************************************************************************)
EXTENDS Integers, Sequences, FiniteSets, TLC

VARIABLES name, status, states, isqrt, size, cells, pc, op, ret, abort, arrlen, nclaims,
          diag, calls

vars == <<name, status, states, isqrt, size, cells, pc, op, ret, abort, arrlen, nclaims,
          diag, calls>>

\* ---------------------------------------------------------------- constants
MAXSTATES == 9
MAXROOTS == 3

\* ------------------------------------------------------------------- bounds
\* longest alphabet handed to Grid::new
MaxAlphabet == 16
\* longest assignment vector handed to bodge
MaxLen == 340
\* cells of a template that a 4-state (or smaller) assignment vector may change
MaxExtra == 1
\* cells of a template that a 9-state assignment vector may change (Spec9)
MaxExtra9 == 1
\* direct claim_a / claim_rc calls of a caller (SpecApi)
MaxClaims == 1
\* longest alphabet of a grid whose methods are called in any order (SpecApi)
MaxApiAlphabet == 4

\* ------------------------------------------------------------ 8-bit helpers
U8(x) == x % 256

\* (nstates as f64).sqrt() as u32: the floor of the square root
IntSqRoot(n) == CHOOSE r \in 0..n : r * r <= n /\ n < (r + 1) * (r + 1)

\* Cell::empty
EmptyCell == [solved |-> FALSE, solution |-> 0, highlight |-> 0]

\* ------------------------------------------------------------------ Init
Init ==
    /\ name = "none"
    /\ status = "none"
    /\ states = 0
    /\ isqrt = 0
    /\ size = 0
    /\ cells = <<>>
    /\ pc = "start"
    /\ op = "none"
    /\ ret = 0
    /\ abort = "none"
    /\ arrlen = 0
    /\ nclaims = 0
    /\ diag = <<>>
    /\ calls = 0

\* ------------------------------------------------------------- Grid::new
\* nstates * nstates is a u8 product: above 255 it panics in a build with
\* overflow checks and wraps in a build without; wraps chooses the build.
NewGrid(n, wraps) ==
    /\ pc = "start"
    /\ op' = "new"
    /\ ret' = 0
    /\ diag' = <<>>
    /\ UNCHANGED <<arrlen, nclaims, calls>>
    /\ LET nstates == U8(n)
           root == IntSqRoot(nstates)
           s == IF nstates # root * root THEN "NotSquare" ELSE "Empty"
       IN  IF nstates * nstates > 255 /\ ~wraps
           THEN /\ pc' = "aborted"
                /\ abort' = "overflow"
                /\ UNCHANGED <<name, status, states, isqrt, size, cells>>
           ELSE /\ name' = "Empty grid"
                /\ status' = s
                /\ states' = nstates
                /\ isqrt' = U8(root)
                /\ size' = U8(nstates * nstates)
                /\ cells' = [i \in 1..U8(nstates * nstates) |-> EmptyCell]
                /\ abort' = "none"
                \* main: if !g.isempty() { exit(1) }
                /\ pc' = IF s = "Empty" THEN "created" ELSE "exit"

\* ------------------------------------------------------------ Grid::bodge
\* for i in 0..arr.len() { if arr[i] > 0 { cells[i] = solved, arr[i] - 1 } }
\* in closed form: the loop writes the places i < cells.len() with
\* arr[i] > 0, all of which it visits before the first place
\* i >= cells.len() with arr[i] > 0, where indexing cells panics.
Given(arr, i) == i < Len(arr) /\ arr[i + 1] > 0

BodgeLoop(c, arr) ==
    [cells |-> [j \in 1..Len(c) |->
                   IF Given(arr, j - 1)
                   THEN [c[j] EXCEPT !.solved = TRUE, !.solution = arr[j] - 1]
                   ELSE c[j]],
     used |-> Cardinality({i \in 0..(Len(arr) - 1) : Given(arr, i) /\ i < Len(c)}),
     panic |-> \E i \in Len(c)..(Len(arr) - 1) : Given(arr, i)]

\* if self.size != arr.len() as u8 { return Err(..) }
LengthRejected(sz, arr) == sz # U8(Len(arr))

\* main prints bodge's result, Ok or Err, and goes on to validate
Bodge(arr) ==
    /\ pc = "created"
    /\ op' = "bodge"
    /\ name' = "2025-04-22_Hard"
    /\ arrlen' = Len(arr)
    /\ diag' = <<>>
    /\ UNCHANGED <<status, states, isqrt, size, nclaims, calls>>
    /\ IF LengthRejected(size, arr)
       THEN /\ ret' = -1
            /\ pc' = "loaded"
            /\ UNCHANGED <<cells, abort>>
       ELSE LET r == BodgeLoop(cells, arr)
            IN  /\ cells' = r.cells
                /\ ret' = r.used
                /\ pc' = IF r.panic THEN "aborted" ELSE "loaded"
                /\ abort' = IF r.panic THEN "index" ELSE "none"

\* ------------------------------------------------- assignment vectors
\* row 0 holds 2..n and one gap, everything else is unsolved
RowTemplate(n) == [i \in 1..(n * n) |-> IF i <= n - 1 THEN i + 1 ELSE 0]

\* column 0 holds 2..n and one gap
ColTemplate(n) ==
    [i \in 1..(n * n) |->
        IF (i - 1) % n = 0 /\ ((i - 1) \div n) <= n - 2 THEN ((i - 1) \div n) + 2 ELSE 0]

\* block 0 holds 2..n and one gap
BlockTemplate(n) ==
    LET bw == IntSqRoot(n)
    IN  [i \in 1..(n * n) |->
            LET r == (i - 1) \div n
                c == (i - 1) % n
                k == r * bw + c
            IN  IF r < bw /\ c < bw /\ k <= n - 2 THEN k + 2 ELSE 0]

\* a complete grid in which every row, column and block is a permutation
FullTemplate(n) ==
    LET bw == IntSqRoot(n)
    IN  [i \in 1..(n * n) |->
            LET r == (i - 1) \div n
                c == (i - 1) % n
            IN  (((r % bw) * bw + (r \div bw) + c) % n) + 1]

\* the complete grid without its main diagonal: every row lacks one value
DiagTemplate(n) ==
    [i \in 1..(n * n) |->
        IF (i - 1) \div n = (i - 1) % n THEN 0 ELSE FullTemplate(n)[i]]

EmptyTemplate(n) == [i \in 1..(n * n) |-> 0]

\* main's test data
Demo ==
    << 2, 0, 0,  0, 0, 0,  0, 0, 0,
       3, 0, 0,  0, 0, 0,  0, 0, 4,
       4, 0, 0,  0, 0, 0,  0, 0, 0,
       5, 0, 0,  0, 0, 0,  1, 2, 3,
       6, 0, 0,  0, 0, 0,  5, 0, 7,
       7, 0, 0,  0, 0, 0,  6, 9, 8,
       8, 0, 0,  0, 0, 0,  0, 0, 0,
       0, 0, 0,  0, 0, 0,  0, 0, 0,
       0, 2, 3,  4, 5, 6,  7, 8, 9 >>

Templates(n) ==
    {EmptyTemplate(n), RowTemplate(n), ColTemplate(n), BlockTemplate(n), FullTemplate(n),
     DiagTemplate(n)}
        \cup (IF n = 9 THEN {Demo} ELSE {})

\* the vectors of S and those that differ from one of them in at most k
\* places; every element stays in [0, n] (0 = unsolved, else 1-indexed symbol)
RECURSIVE Edits(_, _, _)
Edits(S, n, k) ==
    IF k = 0 THEN S
    ELSE Edits(S \cup {[t EXCEPT ![i] = v] : t \in S, i \in 1..(n * n), v \in 0..n},
               n, k - 1)

\* vectors of the right length for an n-state grid
Vectors(n) ==
    IF n * n > 255 THEN {[i \in 1..(n * n) |-> 0], [i \in 1..(n * n) |-> 1]}
    ELSE IF n > 4 THEN Templates(n)
    ELSE Edits(Templates(n), n, MaxExtra)

Vectors9 == Edits(Templates(9), 9, MaxExtra9)

\* vectors of every other length up to MaxLen: all unsolved, all symbol 1,
\* or symbol 1 in the first place only
WrongLength(n) ==
    UNION {{[i \in 1..len |-> 0], [i \in 1..len |-> 1],
            [i \in 1..len |-> IF i = 1 THEN 1 ELSE 0]} :
           len \in (0..MaxLen) \ {n * n}}

\* --------------------------------------------------------- Grid::validate
\* the addresses of one group, in the order validate's loops visit them
RowAddrs(n, y) == [x \in 1..n |-> y * n + (x - 1)]

ColAddrs(n, x) == [y \in 1..n |-> x + (y - 1) * n]

BlockAddrs(n, bw, b) ==
    LET bx == (b % bw) * bw
        by == (b \div bw) * bw * n
    IN  [k \in 1..(bw * bw) |-> bx + by + ((k - 1) % bw) + ((k - 1) \div bw) * n]

GroupAddrs(fam, n, bw, g) ==
    IF fam = "row" THEN RowAddrs(n, g)
    ELSE IF fam = "col" THEN ColAddrs(n, g)
    ELSE BlockAddrs(n, bw, g)

\* for el in 0..self.states { ticked[el] = false }
ResetTicked(ticked, n) == [el \in DOMAIN ticked |-> IF el < n THEN FALSE ELSE ticked[el]]

\* FlagCell without the highlight: the repeat is counted but not marked
FlagCell_NoHighlight(st, a) == [st EXCEPT !.valid = FALSE]

\* what validate does with a solved cell whose value is already ticked
FlagCell(st, a) ==
    [st EXCEPT !.cells = [st.cells EXCEPT ![a + 1].highlight = 2], !.valid = FALSE]

\* the inner loop over one group; st = [cells, ticked, valid, panic]
RECURSIVE ScanGroup(_, _, _)
ScanGroup(st, addrs, k) ==
    IF k > Len(addrs) \/ st.panic THEN st
    ELSE LET a == addrs[k]
         IN  IF a >= Len(st.cells) THEN [st EXCEPT !.panic = TRUE]
             ELSE IF ~st.cells[a + 1].solved THEN ScanGroup(st, addrs, k + 1)
             ELSE LET sol == st.cells[a + 1].solution
                  IN  IF sol >= MAXSTATES THEN [st EXCEPT !.panic = TRUE]
                      ELSE LET s1 == IF st.ticked[sol] THEN FlagCell(st, a) ELSE st
                           IN  ScanGroup([s1 EXCEPT !.ticked[sol] = TRUE], addrs, k + 1)

\* the outer loop over the groups g..n-1 of one family
RECURSIVE ScanFamily(_, _, _, _, _)
ScanFamily(st, fam, n, bw, g) ==
    IF g >= n \/ st.panic THEN st
    ELSE ScanFamily(ScanGroup([st EXCEPT !.ticked = ResetTicked(st.ticked, n)],
                              GroupAddrs(fam, n, bw, g), 1),
                    fam, n, bw, g + 1)

\* Families without the block check
Families_NoBlocks == <<"row", "col">>

\* the families validate checks, in its order
Families == <<"row", "col", "block">>

RECURSIVE ScanFamilies(_, _, _, _)
ScanFamilies(st, n, bw, f) ==
    IF f > Len(Families) THEN st
    ELSE ScanFamilies(ScanFamily(st, Families[f], n, bw, 0), n, bw, f + 1)

\* validate: [cells, ticked, valid, panic]; resetting ticked[el] for
\* el >= MAXSTATES is an index panic before any cell is read
ValidateRun(c, n, bw) ==
    LET st0 == [cells |-> c, ticked |-> [el \in 0..(MAXSTATES - 1) |-> FALSE],
                valid |-> TRUE, panic |-> n > MAXSTATES]
    IN  ScanFamilies(st0, n, bw, 1)

\* a call of validate by a caller at `from`, which goes on at `ok` or `bad`
ValidateStep(from, ok, bad) ==
    /\ pc = from
    /\ op' = "validate"
    /\ diag' = <<>>
    /\ UNCHANGED <<name, status, states, isqrt, size, arrlen, nclaims, calls>>
    /\ LET r == ValidateRun(cells, states, isqrt)
       IN  IF r.panic
           THEN /\ pc' = "aborted"
                /\ abort' = "index"
                /\ ret' = 0
                /\ cells' = r.cells
           ELSE /\ cells' = r.cells
                /\ ret' = IF r.valid THEN 1 ELSE 0
                /\ abort' = "none"
                /\ pc' = IF r.valid THEN ok ELSE bad

\* main: if !g.validate() { exit(1) }
Validate == ValidateStep("loaded", "solving", "exit")

\* -------------------------------------------------- claim_a and claim_rc
\* ClaimA that leaves the highlight as it was
ClaimA_NoHighlight(c, address, sol) ==
    IF address >= Len(c) THEN [cells |-> c, abort |-> "index"]
    ELSE IF c[address + 1].solved THEN [cells |-> c, abort |-> "claim"]
    ELSE [cells |-> [c EXCEPT ![address + 1].solved = TRUE,
                              ![address + 1].solution = sol],
          abort |-> "none"]

\* ClaimA without the check that the cell is unsolved
ClaimA_Overwrite(c, address, sol) ==
    IF address >= Len(c) THEN [cells |-> c, abort |-> "index"]
    ELSE [cells |-> [c EXCEPT ![address + 1].solved = TRUE,
                              ![address + 1].solution = sol,
                              ![address + 1].highlight = 1],
          abort |-> "none"]

\* ClaimA that records the solution but leaves the cell unsolved
ClaimA_NotSolved(c, address, sol) ==
    IF address >= Len(c) THEN [cells |-> c, abort |-> "index"]
    ELSE IF c[address + 1].solved THEN [cells |-> c, abort |-> "claim"]
    ELSE [cells |-> [c EXCEPT ![address + 1].solution = sol,
                              ![address + 1].highlight = 1],
          abort |-> "none"]

\* [cells, abort]: the write, or the panic that precedes it
ClaimA(c, address, sol) ==
    IF address >= Len(c) THEN [cells |-> c, abort |-> "index"]
    ELSE IF c[address + 1].solved THEN [cells |-> c, abort |-> "claim"]
    ELSE [cells |-> [c EXCEPT ![address + 1].solved = TRUE,
                              ![address + 1].solution = sol,
                              ![address + 1].highlight = 1],
          abort |-> "none"]

ClaimRC(c, n, row, col, sol) == ClaimA(c, row * n + col, sol)

\* ------------------------------------------------------- Grid::solve_next
\* "where is the gap?": the positions of addrs whose cell is unsolved
Gaps(c, addrs) == {k \in 1..Len(addrs) : ~c[addrs[k] + 1].solved}

\* the states a scan of the cells addrs ticks: the solutions of its solved
\* cells
Ticked(c, addrs) == {c[addrs[k] + 1].solution : k \in (1..Len(addrs)) \ Gaps(c, addrs)}

\* the scan meets a solved cell whose state an earlier cell of addrs ticked
Reticked(c, addrs) ==
    \E j, k \in (1..Len(addrs)) \ Gaps(c, addrs) :
        j < k /\ c[addrs[j] + 1].solution = c[addrs[k] + 1].solution

\* a) the walk over the grid that sets the row and column boolmaps, in
\* closed form: it panics when a solved cell's state is already ticked for
\* its row or its column
OccupancyPanic(c, n) ==
    \E g \in 0..(n - 1) : Reticked(c, RowAddrs(n, g)) \/ Reticked(c, ColAddrs(n, g))

\* rticked (fam = "row") and cticked (fam = "col") after a walk without
\* panic; a bool row of the source is the set of its true indices
Boolmap(c, n, fam) ==
    [g \in 0..(MAXSTATES - 1) |-> IF g < n THEN Ticked(c, GroupAddrs(fam, n, 0, g)) ELSE {}]

\* "which state is missing?": the first unticked state, 0 when none is
Missed(tk, n) ==
    IF \E st \in 0..(n - 1) : st \notin tk
    THEN CHOOSE st \in 0..(n - 1) :
            st \notin tk /\ \A t \in 0..(n - 1) : t \notin tk => st <= t
    ELSE 0

FirstOf(S) == CHOOSE k \in S : \A j \in S : k <= j

\* Claimable that also takes a group with two values missing
Claimable_OffByOne(used, n) == used >= n - 2 /\ used <= n - 1

\* the group is a candidate for an immediate claim
Claimable(used, n) == used = n - 1

\* the outcome of a pass: done (a claim or a panic ended the call) or not
Outcome(done, c, added, ab) == [done |-> done, cells |-> c, added |-> added, abort |-> ab]

Claimed(r) == Outcome(TRUE, r.cells, IF r.abort = "none" THEN 1 ELSE 0, r.abort)

\* c) and d): rows (fam = "row", boolmap rticked) and columns (fam = "col",
\* boolmap cticked), groups g..n-1 in index order
RECURSIVE LinePass(_, _, _, _, _)
LinePass(c, n, fam, tk, g) ==
    IF g >= n THEN Outcome(FALSE, c, 0, "none")
    ELSE LET addrs == GroupAddrs(fam, n, 0, g)
             gaps == Gaps(c, addrs)
         IN  IF Claimable(Cardinality(tk[g]), n) /\ gaps # {}
             THEN LET a == addrs[FirstOf(gaps)]
                  IN  Claimed(IF fam = "row"
                              THEN ClaimA(c, a, Missed(tk[g], n))
                              ELSE ClaimRC(c, n, a \div n, g, Missed(tk[g], n)))
             ELSE LinePass(c, n, fam, tk, g + 1)

LastOf(S) == CHOOSE k \in S : \A j \in S : j <= k

\* e) the scan of one block, in closed form: [bticked, mema, panic], mema
\* the last unsolved cell met (0 when none is), panic a state ticked twice
BlockScan(c, addrs) ==
    [bticked |-> Ticked(c, addrs),
     mema |-> IF Gaps(c, addrs) = {} THEN 0 ELSE addrs[LastOf(Gaps(c, addrs))],
     panic |-> Reticked(c, addrs)]

RECURSIVE BlockPass(_, _, _, _)
BlockPass(c, n, bw, b) ==
    IF b >= n THEN Outcome(FALSE, c, 0, "none")
    ELSE LET bs == BlockScan(c, BlockAddrs(n, bw, b))
         IN  IF bs.panic THEN Outcome(TRUE, c, 0, "block_dup")
             ELSE IF Claimable(Cardinality(bs.bticked), n)
                  THEN IF ~c[bs.mema + 1].solved
                       THEN Claimed(ClaimA(c, bs.mema, Missed(bs.bticked, n)))
                       ELSE Outcome(TRUE, c, 0, "block_target")
                  ELSE BlockPass(c, n, bw, b + 1)

\* b) the 'triple' finder.  The cells of stripe grid_block (its rows are
\* grid_block * bw + row, row < bw) that hold state, as <<row, el>>
StripeHits(c, n, bw, grid_block, state) ==
    {h \in (0..(bw - 1)) \X (0..(n - 1)) :
        LET a == (grid_block * bw + h[1]) * n + h[2]
        IN  c[a + 1].solved /\ c[a + 1].solution = state}

\* if used==2
StripeUsed == 2

\* the first index below bw that is in S, 0 when none is ("= 0; for .. break")
FirstOr0(S, bw) ==
    IF \E r \in 0..(bw - 1) : r \in S
    THEN CHOOSE r \in 0..(bw - 1) : r \in S /\ \A q \in 0..(bw - 1) : q \in S => r <= q
    ELSE 0

\* the line printed for one stripe and state, as the sequence of no line or
\* one line <<grid_block, state, target_row, target_block>>: rowusage[row]
\* is set by a hit in the row, slugmap[row][el / bw] by a hit in the row's
\* sub-block, and both targets are searched over the rows
StripeLine(c, n, bw, grid_block, state) ==
    LET hits == StripeHits(c, n, bw, grid_block, state)
        rowusage == {h[1] : h \in hits}
        slugmap == [row \in 0..(bw - 1) |-> {h[2] \div bw : h \in {x \in hits : x[1] = row}}]
        target_row == FirstOr0({row \in 0..(bw - 1) : row \notin rowusage}, bw)
        target_block == FirstOr0({row \in 0..(bw - 1) : slugmap[row] = {}}, bw)
    IN  IF Cardinality(hits) = StripeUsed
        THEN << <<grid_block, state, target_row, target_block>> >>
        ELSE << >>

\* for grid_block in 0..bw { for state in 0..n { .. } }: the lines from the
\* k-th (grid_block, state) pair on, in the order they are printed
RECURSIVE StripeFrom(_, _, _, _)
StripeFrom(c, n, bw, k) ==
    IF k >= bw * n THEN << >>
    ELSE StripeLine(c, n, bw, k \div n, k % n) \o StripeFrom(c, n, bw, k + 1)

StripeDiag(c, n, bw) == StripeFrom(c, n, bw, 0)

\* SolveNextRun with the column pass before the row pass
SolveNextRun_ColumnsFirst(c, n, bw) ==
    IF OccupancyPanic(c, n) THEN Outcome(TRUE, c, 0, "occupancy")
    ELSE LET cols == LinePass(c, n, "col", Boolmap(c, n, "col"), 0)
         IN  IF cols.done THEN cols
             ELSE LET rows == LinePass(c, n, "row", Boolmap(c, n, "row"), 0)
                  IN  IF rows.done THEN rows
                      ELSE BlockPass(c, n, bw, 0)

\* the passes in the order of the source; pass b), the 'triple' finder,
\* only prints (StripeDiag) and reads nothing it could panic on for
\* n <= MAXSTATES
SolveNextRun(c, n, bw) ==
    IF OccupancyPanic(c, n) THEN Outcome(TRUE, c, 0, "occupancy")
    ELSE LET rows == LinePass(c, n, "row", Boolmap(c, n, "row"), 0)
         IN  IF rows.done THEN rows
             ELSE LET cols == LinePass(c, n, "col", Boolmap(c, n, "col"), 0)
                  IN  IF cols.done THEN cols
                      ELSE BlockPass(c, n, bw, 0)

\* a call of solve_next by a caller at `from`, which goes on at `more` when
\* the call returns a positive count and at `stop` when it returns 0
SolveNextStep(from, more, stop) ==
    /\ pc = from
    /\ op' = "solve_next"
    /\ UNCHANGED <<name, status, states, isqrt, size, arrlen, nclaims>>
    /\ \E r \in {SolveNextRun(cells, states, isqrt)} :
           /\ cells' = r.cells
           /\ ret' = r.added
           /\ abort' = r.abort
           /\ diag' = IF r.abort = "occupancy" THEN <<>>
                      ELSE StripeDiag(cells, states, isqrt)
           /\ pc' = IF r.abort # "none" THEN "aborted"
                    ELSE IF r.added > 0 THEN more ELSE stop

\* main: while g.solve_next() > 0 { g.print(false) }
SolveNext == SolveNextStep("solving", "solving", "done") /\ calls' = calls + 1

\* ------------------------------------------------- main's call sequence
Next ==
    \/ pc = "start" /\ \E n \in 1..MaxAlphabet, wraps \in BOOLEAN : NewGrid(n, wraps)
    \/ pc = "created" /\ \E arr \in Vectors(states) \cup WrongLength(states) : Bodge(arr)
    \/ Validate
    \/ SolveNext

Spec == Init /\ [][Next]_vars

\* main is sequential code: once in the loop of lines 706-708 it keeps
\* calling solve_next, and every call returns or panics
SpecLive == Spec /\ WF_vars(SolveNext)

\* --------------------------------- main with other test data (9 states)
\* main's Grid::new("123456789")
Next9 ==
    \/ pc = "start" /\ NewGrid(9, FALSE)
    \/ pc = "created" /\ \E arr \in Vectors9 : Bodge(arr)
    \/ Validate
    \/ SolveNext

Spec9 == Init /\ [][Next9]_vars

\* ------------------------- a caller that calls the methods in any order
CallValidate == ValidateStep("loaded", "loaded", "loaded")

CallSolveNext == SolveNextStep("loaded", "loaded", "loaded") /\ UNCHANGED calls

\* the result of a direct claim: the write, or the panic
ClaimStep(opname, r) ==
    /\ pc = "loaded"
    /\ nclaims < MaxClaims
    /\ nclaims' = nclaims + 1
    /\ op' = opname
    /\ ret' = 0
    /\ cells' = r.cells
    /\ abort' = r.abort
    /\ pc' = IF r.abort # "none" THEN "aborted" ELSE "loaded"
    /\ diag' = <<>>
    /\ UNCHANGED <<name, status, states, isqrt, size, arrlen, calls>>

CallClaimA(address, sol) == ClaimStep("claim_a", ClaimA(cells, address, sol))

CallClaimRC(row, col, sol) == ClaimStep("claim_rc", ClaimRC(cells, states, row, col, sol))

NextApi ==
    \/ pc = "start" /\ \E n \in 1..MaxApiAlphabet : NewGrid(n, FALSE)
    \/ pc = "created" /\ \E arr \in Templates(states) : Bodge(arr)
    \/ CallValidate
    \/ CallSolveNext
    \/ pc = "loaded" /\ \E address \in 0..(states * states), sol \in 0..(states - 1) :
            CallClaimA(address, sol)
    \/ pc = "loaded" /\ \E row \in 0..(states - 1), col \in 0..(states - 1),
                            sol \in 0..(states - 1) : CallClaimRC(row, col, sol)

SpecApi == Init /\ [][NextApi]_vars

\* =====================================================================
\* Properties.  The predicates below speak of the grid by coordinates and
\* do not use the operators that model the methods.
\* =====================================================================
Addrs(c) == 0..(Len(c) - 1)

RowOf(a) == a \div states

ColOf(a) == a % states

BlockOf(a) == (RowOf(a) \div isqrt) * isqrt + (ColOf(a) \div isqrt)

\* two different cells of one row, column or block
Peers(a, b) ==
    /\ a # b
    /\ RowOf(a) = RowOf(b) \/ ColOf(a) = ColOf(b) \/ BlockOf(a) = BlockOf(b)

SameValue(c, a, b) ==
    c[a + 1].solved /\ c[b + 1].solved /\ c[a + 1].solution = c[b + 1].solution

\* no two solved cells that share a row, a column or a block hold one value
NoDuplicate(c) == \A a \in Addrs(c), b \in Addrs(c) : Peers(a, b) => ~SameValue(c, a, b)

\* validate() returns true on the grid
Accepts(c) ==
    LET r == ValidateRun(c, states, isqrt) IN r.valid /\ ~r.panic

\* the cells whose two grids differ
Changed(c, d) == {a \in Addrs(c) : c[a + 1] # d[a + 1]}

SolvedIn(c, S) == {a \in S : c[a + 1].solved}

RowCells(y) == {a \in Addrs(cells) : RowOf(a) = y}

ColCells(x) == {a \in Addrs(cells) : ColOf(a) = x}

BlockCells(b) == {a \in Addrs(cells) : BlockOf(a) = b}

Groups == 0..(states - 1)

\* C1: from a 9-state grid that validate accepted, no call of solve_next in
\* main's loop ends in an integrity abort (the duplicate panic of the
\* occupancy pass, the duplicate or solved-target panic of the block pass,
\* the claim-on-solved panic of claim_a).
C1_NoIntegrityAbort ==
    (states = 9 /\ op = "solve_next")
        => abort \notin {"occupancy", "block_dup", "block_target", "claim"}

\* C2: a call of solve_next that returns changes no cell and returns 0, or
\* changes exactly one cell and returns 1; that cell was unsolved and is
\* solved with highlight 1 afterwards; the status is as before.
C2_OneCellPerCall ==
    [][(op' = "solve_next" /\ abort' = "none") =>
          /\ status' = status
          /\ Len(cells') = Len(cells)
          /\ \/ ret' = 0 /\ cells' = cells
             \/ /\ ret' = 1
                /\ \E a \in Addrs(cells) :
                      /\ Changed(cells, cells') = {a}
                      /\ ~cells[a + 1].solved
                      /\ cells'[a + 1].solved
                      /\ cells'[a + 1].highlight = 1]_vars

\* a call of solve_next on a 9-state grid has returned 1
C2_Witness == states = 9 /\ op = "solve_next" /\ abort = "none" /\ ret = 1

\* C3: for every vector whose length differs from states^2, bodge returns
\* an error and leaves every cell as it was.
C3_WrongLengthRejected ==
    [][(op' = "bodge" /\ arrlen' # states * states) =>
          (ret' = -1 /\ abort' = "none" /\ cells' = cells)]_vars

\* the groups of a family that hold exactly states - 1 solved cells
AlmostFullRows(c) == {g \in Groups : Cardinality(SolvedIn(c, RowCells(g))) = states - 1}

AlmostFullCols(c) == {g \in Groups : Cardinality(SolvedIn(c, ColCells(g))) = states - 1}

AlmostFullBlocks(c) == {g \in Groups : Cardinality(SolvedIn(c, BlockCells(g))) = states - 1}

\* the grid after the one unsolved cell of row y took the value the row lacks
RowClaim(c, y) ==
    LET a == CHOOSE x \in RowCells(y) : ~c[x + 1].solved
        v == CHOOSE w \in 0..(states - 1) :
                \A x \in SolvedIn(c, RowCells(y)) : c[x + 1].solution # w
    IN  [c EXCEPT ![a + 1] = [solved |-> TRUE, solution |-> v, highlight |-> 1]]

\* C4's grids: validate accepts, exactly one row holds states - 1 solved
\* cells, and no column or block does, before or after that row's claim
OneRowDeducible(c) ==
    /\ Accepts(c)
    /\ Cardinality(AlmostFullRows(c)) = 1
    /\ AlmostFullCols(c) = {} /\ AlmostFullBlocks(c) = {}
    /\ LET d == RowClaim(c, CHOOSE y \in AlmostFullRows(c) : TRUE)
       IN  AlmostFullCols(d) = {} /\ AlmostFullBlocks(d) = {}

ClaimedCells(c) == {a \in Addrs(c) : c[a + 1].highlight = 1}

\* the grid is what the first call of solve_next left of one of C4's grids
AfterRowClaim(c) ==
    /\ op = "solve_next" /\ ret = 1 /\ abort = "none"
    /\ Cardinality(ClaimedCells(c)) = 1
    /\ LET a == CHOOSE x \in ClaimedCells(c) : TRUE
           before == [c EXCEPT ![a + 1] = EmptyCell]
       IN  OneRowDeducible(before) /\ c = RowClaim(before, RowOf(a))

\* C4: on a validate-accepted grid with exactly one row of states - 1
\* solved cells and no deducible column or block, solve_next claims the
\* row's unsolved cell with the missing value and returns 1, and the next
\* call of solve_next returns 0.
C4_RowCompletionThenStop ==
    [][(op' = "solve_next" /\ pc = "solving") =>
          /\ OneRowDeducible(cells) =>
                /\ abort' = "none" /\ ret' = 1
                /\ cells' = RowClaim(cells, CHOOSE y \in AlmostFullRows(cells) : TRUE)
          /\ AfterRowClaim(cells) => (abort' = "none" /\ ret' = 0)]_vars

\* every row, column and block is a permutation of the alphabet
FullyValid(c) ==
    \A g \in Groups, v \in 0..(states - 1) :
        /\ \E a \in RowCells(g) : c[a + 1].solved /\ c[a + 1].solution = v
        /\ \E a \in ColCells(g) : c[a + 1].solved /\ c[a + 1].solution = v
        /\ \E a \in BlockCells(g) : c[a + 1].solved /\ c[a + 1].solution = v

\* C5: validate returns true exactly when no two solved cells of one row,
\* column or block hold the same value; on a fully valid grid it returns
\* true and no cell has highlight 2.
C5_ValidateIffNoDuplicate ==
    (op = "validate" /\ abort = "none") =>
        /\ (ret = 1) <=> NoDuplicate(cells)
        /\ FullyValid(cells) => (ret = 1 /\ \A a \in Addrs(cells) : cells[a + 1].highlight # 2)

\* validate has accepted a fully valid 9-state grid
C5_Witness ==
    states = 9 /\ op = "validate" /\ abort = "none" /\ ret = 1 /\ FullyValid(cells)

\* the cell's value occurred earlier in scan order in its row, column or
\* block (in each of the three the scan goes by ascending address)
Repeated(c, a) == \E b \in Addrs(c) : b < a /\ Peers(a, b) /\ SameValue(c, a, b)

\* C6: one call of validate sets highlight 2 on exactly the solved cells
\* whose value occurred earlier in scan order in their row, column or block,
\* and changes nothing else, neither another field of a cell nor the status.
C6_ValidateFlagsEveryRepeat ==
    [][(op' = "validate" /\ abort' = "none") =>
          /\ status' = status
          /\ Len(cells') = Len(cells)
          /\ \A a \in Addrs(cells) :
                cells'[a + 1] = IF Repeated(cells, a)
                                THEN [cells[a + 1] EXCEPT !.highlight = 2]
                                ELSE cells[a + 1]]_vars

\* one call of validate has flagged repeats in two different rows
C6_Witness ==
    /\ states = 4
    /\ op = "validate" /\ abort = "none" /\ ret = 0 /\ pc = "exit"
    /\ \E a \in Addrs(cells), b \in Addrs(cells) :
          /\ RowOf(a) # RowOf(b)
          /\ cells[a + 1].highlight = 2 /\ cells[b + 1].highlight = 2

\* C7: on a validate-accepted grid in which no row, column or block holds
\* exactly states - 1 solved cells, solve_next returns 0 and changes no cell.
C7_NothingDeducible ==
    [][(/\ op' = "solve_next"
        /\ Accepts(cells)
        /\ AlmostFullRows(cells) = {}
        /\ AlmostFullCols(cells) = {}
        /\ AlmostFullBlocks(cells) = {}) =>
          (abort' = "none" /\ ret' = 0 /\ cells' = cells)]_vars

\* solve_next has returned 0 on such a 9-state grid that holds solved cells
C7_Witness ==
    /\ states = 9
    /\ op = "solve_next" /\ abort = "none" /\ ret = 0
    /\ Accepts(cells)
    /\ AlmostFullRows(cells) = {} /\ AlmostFullCols(cells) = {} /\ AlmostFullBlocks(cells) = {}
    /\ SolvedIn(cells, Addrs(cells)) # {}
    /\ SolvedIn(cells, Addrs(cells)) # Addrs(cells)

\* C8: after the bulk load a solved cell stays solved with its solution,
\* whatever is called; a direct claim that returns has written one cell,
\* which was unsolved.
C8_SolvedIsForever ==
    [][pc = "loaded" =>
          /\ Len(cells') = Len(cells)
          /\ \A a \in Addrs(cells) :
                cells[a + 1].solved =>
                    (cells'[a + 1].solved /\ cells'[a + 1].solution = cells[a + 1].solution)
          /\ (op' \in {"claim_a", "claim_rc"} /\ abort' = "none") =>
                \E a \in Addrs(cells) : Changed(cells, cells') = {a} /\ ~cells[a + 1].solved]_vars

\* a direct claim on a solved cell has aborted
C8_Witness ==
    /\ states = 4
    /\ op \in {"claim_a", "claim_rc"} /\ abort = "claim"
    /\ SolvedIn(cells, Addrs(cells)) # {}

\* C9: for every alphabet length n from 1 to 16, Grid::new yields a grid
\* with states = n, n^2 unsolved cells and size n^2 in 8-bit arithmetic; its
\* status is Empty when n is a perfect square, with isqrt^2 = n, and
\* NotSquare otherwise.
C9_NewGrid ==
    op = "new" =>
        /\ abort = "none"
        /\ states \in 1..MaxAlphabet
        /\ Len(cells) = states * states
        /\ \A a \in Addrs(cells) : ~cells[a + 1].solved
        /\ size = U8(states * states)
        /\ status = IF \E r \in 1..states : r * r = states THEN "Empty" ELSE "NotSquare"
        /\ status = "Empty" => isqrt * isqrt = states

\* C10: if validate accepts the grid before a call of solve_next, it
\* accepts the grid after the call.
C10_SolveNextKeepsValid ==
    [][(op' = "solve_next" /\ pc = "solving" /\ Accepts(cells)) => Accepts(cells')]_vars

LowestOf(S) == CHOOSE g \in S : \A h \in S : g <= h

\* the cell C11 names: the unsolved cell of the lowest row with states - 1
\* solved cells, else of the lowest such column, else of the lowest such block
PriorityGroup(c) ==
    IF AlmostFullRows(c) # {} THEN RowCells(LowestOf(AlmostFullRows(c)))
    ELSE IF AlmostFullCols(c) # {} THEN ColCells(LowestOf(AlmostFullCols(c)))
    ELSE BlockCells(LowestOf(AlmostFullBlocks(c)))

Deducible(c) ==
    AlmostFullRows(c) # {} \/ AlmostFullCols(c) # {} \/ AlmostFullBlocks(c) # {}

\* C11: on a validate-accepted grid solve_next claims the unsolved cell of
\* the lowest-index row with states - 1 values if there is one, else of the
\* lowest-index such column, else of the lowest-index such block.
C11_ClaimPriority ==
    [][(op' = "solve_next" /\ Accepts(cells) /\ Deducible(cells)) =>
          /\ abort' = "none" /\ ret' = 1
          /\ \E a \in PriorityGroup(cells) :
                ~cells[a + 1].solved /\ Changed(cells, cells') = {a}]_vars

\* the first call of the loop has claimed a column's cell although a block
\* with another gap qualified, and has left that block's gap unsolved
C11_Witness ==
    /\ states = 4 /\ op = "solve_next" /\ ret = 1 /\ abort = "none"
    /\ Cardinality(ClaimedCells(cells)) = 1
    /\ LET a == CHOOSE x \in ClaimedCells(cells) : TRUE
           before == [cells EXCEPT ![a + 1] = EmptyCell]
       IN  /\ AlmostFullRows(before) = {}
           /\ ColOf(a) \in AlmostFullCols(before)
           /\ \E b \in AlmostFullBlocks(before) : BlockOf(a) # b

\* does the cell at (row, col) hold value v
Holds(c, n, row, col, v) == c[row * n + col + 1].solved /\ c[row * n + col + 1].solution = v

\* the rows of stripe sb (0-based within the stripe) that contain v, and the
\* sub-blocks (column bands of width bw) of the stripe in which v occurs
StripeRowsWith(c, n, bw, sb, v) ==
    {r \in 0..(bw - 1) : \E x \in 0..(n - 1) : Holds(c, n, sb * bw + r, x, v)}

StripeBlocksWith(c, n, bw, sb, v) ==
    {b \in 0..(bw - 1) :
        \E r \in 0..(bw - 1), x \in 0..(n - 1) : x \div bw = b /\ Holds(c, n, sb * bw + r, x, v)}

\* the diagnostics C12 describes: one per stripe and value with bw - 1 of the
\* stripe's rows holding the value, naming the row and the sub-block without it
ExpectedDiag(c, n, bw) ==
    {<<sb, v, r, b>> : <<sb, v, r, b>> \in
        {t \in (0..(bw - 1)) \X (0..(n - 1)) \X (0..(bw - 1)) \X (0..(bw - 1)) :
            /\ Cardinality(StripeRowsWith(c, n, bw, t[1], t[2])) = bw - 1
            /\ t[3] \notin StripeRowsWith(c, n, bw, t[1], t[2])
            /\ t[4] \notin StripeBlocksWith(c, n, bw, t[1], t[2])}}

Emitted(d) == {d[i] : i \in 1..Len(d)}

\* C12: in a call of solve_next on an accepted grid the stripe pass emits a
\* diagnostic exactly for the stripes and values where blockSize - 1 rows of
\* the stripe hold the value, reporting the row and the sub-block without
\* it; the pass changes no cell (a call in which no completion pass can
\* claim leaves the grid as it was).
C12_StripeDiagnostic ==
    [][(op' = "solve_next" /\ abort' # "occupancy" /\ Accepts(cells)) =>
          /\ Emitted(diag') = ExpectedDiag(cells, states, isqrt)
          /\ (~Deducible(cells) => cells' = cells)]_vars

SolvedCount(c) == Cardinality(SolvedIn(c, Addrs(c)))

\* the number of unsolved cells when the loop began: those unsolved now and
\* those the loop has claimed (validate passes on a grid without highlights,
\* and only a claim sets one)
UnsolvedAtLoopStart == (Len(cells) - SolvedCount(cells)) + Cardinality(ClaimedCells(cells))

InLoop == pc = "solving"

LoopOver == pc \in {"done", "aborted"}

\* C13: main's loop over solve_next terminates: each call that returns 1
\* raises the number of solved cells by exactly one, a loop that began with u
\* unsolved cells makes at most u + 1 calls, and it ends with a 0 return or
\* an abort.
C13_LoopTerminates ==
    /\ [][(InLoop /\ op' = "solve_next" /\ ret' = 1) =>
             SolvedCount(cells') = SolvedCount(cells) + 1]_vars
    /\ [](calls > 0 => calls <= UnsolvedAtLoopStart + 1)
    /\ (InLoop ~> LoopOver)

\* a 4-state loop has ended with a 0 return after four claims, in exactly
\* u + 1 calls
C13_Witness ==
    /\ states = 4 /\ pc = "done" /\ ret = 0
    /\ Cardinality(ClaimedCells(cells)) >= 4
    /\ calls = UnsolvedAtLoopStart + 1

====
